---------------------------- MODULE Spec2Model ----------------------------
(***************************************************************************)
(* TF-IDF pipeline of tfidf_greek (main.py and utils/).                    *)
(*                                                                         *)
(* Representation.                                                         *)
(*  - A word is a TLA+ string.  A Python str holding running text is a     *)
(*    sequence of pieces: a piece is a word, the empty string, or the      *)
(*    separator " ".  str.join interleaves separators, str.split drops     *)
(*    separators and empty pieces, str.lower maps every piece.             *)
(*  - A file is [exists, data]; data is the sequence of lemmas the CLTK    *)
(*    lemmatizer returns for the file's cleaned tokens (tup[1] at          *)
(*    text_processing.py:155).  CLTK itself is not part of the repository. *)
(*  - A float is a fixed-point integer in units of 1/Scale.                *)
(***************************************************************************)
EXTENDS Integers, Sequences, FiniteSets, TLC

\* ------------------------------------------------------------------ bounds
MaxFiles == 2      \* .txt files under a directory
MaxLen == 3        \* lemmas in all files of one path together
MaxLemmas == 4     \* lemmas in a sequence handed to the Frequency Model alone
MaxTerms == 3      \* word objects in a collection handed to the ranking alone
MaxTokens == 3     \* cleaned tokens of a document handed to the lemma adapter alone

\* --------------------------------------------------------------- constants
Scale == 10000     \* fixed-point unit of a float: 1.0 is Scale
Prec == 1000000    \* working precision of the logarithm series
Sentinel == 10000  \* tf_idf of a word found in no text

RawLemmas == {"a", "B"}           \* lemmas the lemmatizer returns in a pipeline run
FreqLemmas == {"a", "A", "b"}     \* lemmas handed to the Frequency Model alone
RankWords == {"a", "b", "c", "d"} \* words of a collection handed to the ranking alone
\* lemmas the lemmatizer returns for a document handed to the lemma adapter alone
AdapterLemmas == {"a", "A", "punc", "PUNC", "col", "δ", "Δ"}
ScoreCounts == {1, 20000}         \* raw counts of a collection handed to the Scorer alone

VARIABLES
    pc,                          \* position in main, or in a stand-alone call
    corpus_path,                 \* main's argument
    analysis_path,               \* main's argument
    corpus_files,                \* main.py:54
    analysis_files,              \* main.py:55
    lemmatized_text,             \* text_processing.py:185, of the analysis unit
    x,                           \* main.py:58, the list of Word objects
    corpus_texts,                \* main.py:61
    total_number_of_txt_files,   \* main.py:61
    i,                           \* texts of the corpus word_search has scanned
    j,                           \* word objects calculate_idf has scored
    sorted_words,                \* main.py:70
    error                        \* the exception that left main, or "none"

vars == <<pc, corpus_path, analysis_path, corpus_files, analysis_files,
          lemmatized_text, x, corpus_texts, total_number_of_txt_files,
          i, j, sorted_words, error>>

\* ------------------------------------------------------------ str helpers
SeqsUpTo(S, n) == UNION {[1..k -> S] : k \in 0..n}

Range(s) == {s[k] : k \in 1..Len(s)}

\* str.lower on one word of the alphabets used here
LowerWord(w) ==
    CASE w = "A" -> "a"
      [] w = "B" -> "b"
      [] w = "C" -> "c"
      [] w = "PUNC" -> "punc"
      [] w = "Δ" -> "δ"
      [] OTHER -> w

\* str.lower on a text
Lower(text) == [k \in 1..Len(text) |-> LowerWord(text[k])]

\* ' '.join(words)
RECURSIVE Join(_)
Join(words) ==
    IF Len(words) = 0 THEN <<>>
    ELSE IF Len(words) = 1 THEN <<words[1]>>
    ELSE <<words[1], " ">> \o Join(Tail(words))

IsWord(p) == p # " " /\ p # ""

\* str.split(): the maximal runs of non-whitespace
Split(text) == SelectSeq(text, IsWord)


\* ------------------------------------------------------- text_processing.py
\* lemmatizing_text_cltk, lines 155-166: lower-case the lemmas, drop the
\* markers 'punc' and 'col', expand 'δ', join with spaces.
\* the loop left at the first marker instead of continued
RECURSIVE PostProcessBreak(_)
PostProcessBreak(lemmas) ==
    IF lemmas = <<>> THEN <<>>
    ELSE LET lemma == Head(lemmas)
         IN  IF lemma \in {"punc", "col"} THEN <<>>
             ELSE IF lemma = "δ" THEN <<"δέ">> \o PostProcessBreak(Tail(lemmas))
             ELSE <<lemma>> \o PostProcessBreak(Tail(lemmas))

RECURSIVE PostProcess(_)
PostProcess(lemmas) ==
    IF lemmas = <<>> THEN <<>>
    ELSE LET lemma == Head(lemmas)
         IN  IF lemma \in {"punc", "col"} THEN PostProcess(Tail(lemmas))
             ELSE IF lemma = "δ" THEN <<"δέ">> \o PostProcess(Tail(lemmas))
             ELSE <<lemma>> \o PostProcess(Tail(lemmas))

\* the lemmas joined as the lemmatizer returned them, without lower()
lemmatizing_text_cltk_no_lower(text_lemmas) == Join(PostProcess(text_lemmas))

lemmatizing_text_cltk(text_lemmas) ==
    LET lemmas == [k \in 1..Len(text_lemmas) |-> LowerWord(text_lemmas[k])]
    IN  Join(PostProcess(lemmas))

\* text_cleaning_lemmas, lines 179-183: the files' contents, in order, as one
\* text; the lemmatizer works token by token, so the lemmas of the combined
\* text are the files' lemmas in file order.
\* the text assigned from each file instead of extended by it
main_text_last(file_path) ==
    IF file_path = <<>> THEN <<>> ELSE file_path[Len(file_path)].data

RECURSIVE main_text(_)
main_text(file_path) ==
    IF file_path = <<>> THEN <<>>
    ELSE Head(file_path).data \o main_text(Tail(file_path))

\* get_data raises FileNotFoundError on a file that does not exist
CanRead(file_path) == \A k \in 1..Len(file_path) : file_path[k].exists

\* ---------------------------------------------------------------- classes.py
Word(word, frequency, raw_count) ==
    [word |-> word, frequency |-> frequency, raw_count |-> raw_count,
     idf |-> 0, tf_idf |-> 0, found_in_texts |-> 0]

\* ---------------------------------------------------------- tfidf_analysis.py
RECURSIVE Occurrences(_, _)
Occurrences(w, words_list) ==
    IF words_list = <<>> THEN 0
    ELSE (IF Head(words_list) = w THEN 1 ELSE 0) + Occurrences(w, Tail(words_list))

\* keys of collections.Counter: the distinct words, in order of first occurrence
RECURSIVE CounterKeys(_, _)
CounterKeys(words_list, seen) ==
    IF words_list = <<>> THEN <<>>
    ELSE IF Head(words_list) \in seen THEN CounterKeys(Tail(words_list), seen)
    ELSE <<Head(words_list)>> \o CounterKeys(Tail(words_list), seen \cup {Head(words_list)})

\* count / total_words as a float
Fraction(count, total_words) == (count * Scale) \div total_words

\* the words counted as they come, without lower()
statistical_analysing_no_lower(text) ==
    LET words_list == Split(text)
        total_words == Len(words_list)
        keys == CounterKeys(words_list, {})
        values == [k \in 1..Len(keys) |-> Occurrences(keys[k], words_list)]
    IN  [Word |-> keys,
         RawCount |-> values,
         Frequency |-> [k \in 1..Len(values) |-> Fraction(values[k], total_words)]]

\* the counts divided by the number of distinct words
statistical_analysing_per_distinct(text) ==
    LET words_list == Split(Lower(text))
        keys == CounterKeys(words_list, {})
        values == [k \in 1..Len(keys) |-> Occurrences(keys[k], words_list)]
    IN  [Word |-> keys,
         RawCount |-> values,
         Frequency |-> [k \in 1..Len(values) |-> Fraction(values[k], Len(keys))]]

statistical_analysing(text) ==
    LET words_list == Split(Lower(text))
        total_words == Len(words_list)
        keys == CounterKeys(words_list, {})
        values == [k \in 1..Len(keys) |-> Occurrences(keys[k], words_list)]
    IN  [Word |-> keys,
         RawCount |-> values,
         Frequency |-> [k \in 1..Len(values) |-> Fraction(values[k], total_words)]]

words_to_objects(words_data) ==
    [k \in 1..Len(words_data.Word) |->
        Word(words_data.Word[k], words_data.Frequency[k], words_data.RawCount[k])]

\* text_cleaning_lemmas, lines 184-191: Word objects when analysis is set,
\* the lemmatised text otherwise
text_cleaning_lemmas(file_path, analysis) ==
    LET lemmatized == lemmatizing_text_cltk(main_text(file_path))
    IN  IF analysis THEN words_to_objects(statistical_analysing(lemmatized))
        ELSE lemmatized

\* math.log(n / d) as a float, for n, d >= 1:
\* ln(n/d) = 2 * (z + z^3/3 + z^5/5 + ...) with z = (n-d)/(n+d)
RECURSIVE LnSeries(_, _, _, _)
LnSeries(p, k, num, den) ==
    IF p = 0 THEN 0
    ELSE (p \div k) + LnSeries((p * num * num) \div (den * den), k + 2, num, den)

LnFixed(n, d) ==
    IF n >= d
    THEN (2 * LnSeries((Prec * (n - d)) \div (n + d), 1, n - d, n + d)) \div (Prec \div Scale)
    ELSE 0 - ((2 * LnSeries((Prec * (d - n)) \div (n + d), 1, d - n, n + d)) \div (Prec \div Scale))

\* the sentinel scaled by the raw count
ScoreWordScaledSentinel(number_of_documents, word_obj) ==
    IF word_obj.found_in_texts = 0
    THEN [word_obj EXCEPT !.tf_idf = Sentinel * Scale * word_obj.raw_count]
    ELSE LET idf == LnFixed(number_of_documents, word_obj.found_in_texts)
         IN  [word_obj EXCEPT !.idf = idf, !.tf_idf = idf * word_obj.raw_count]

\* the score without the raw count
ScoreWordIdfOnly(number_of_documents, word_obj) ==
    IF word_obj.found_in_texts = 0
    THEN [word_obj EXCEPT !.tf_idf = Sentinel * Scale]
    ELSE LET idf == LnFixed(number_of_documents, word_obj.found_in_texts)
         IN  [word_obj EXCEPT !.idf = idf, !.tf_idf = idf]

\* the score stored in the frequency attribute
ScoreWordIntoFrequency(number_of_documents, word_obj) ==
    IF word_obj.found_in_texts = 0
    THEN [word_obj EXCEPT !.tf_idf = Sentinel * Scale]
    ELSE LET idf == LnFixed(number_of_documents, word_obj.found_in_texts)
         IN  [word_obj EXCEPT !.idf = idf, !.frequency = idf * word_obj.raw_count]

\* calculate_idf, lines 97-101, on one word object
ScoreWord(number_of_documents, word_obj) ==
    IF word_obj.found_in_texts = 0
    THEN [word_obj EXCEPT !.tf_idf = Sentinel * Scale]
    ELSE LET idf == LnFixed(number_of_documents, word_obj.found_in_texts)
         IN  [word_obj EXCEPT !.idf = idf, !.tf_idf = idf * word_obj.raw_count]

\* math.log raises ValueError on 0.0
ScoreRaises(number_of_documents, word_obj) ==
    word_obj.found_in_texts # 0 /\ number_of_documents = 0

\* word_search, lines 123-126
words_set(words_objects) == {words_objects[k].word : k \in 1..Len(words_objects)}

text_words(text) == Range(Split(text))

found_words(text, words_objects) == text_words(text) \cap words_set(words_objects)

\* the loop run over the words of the text instead of over their set
IncrementsPerOccurrence(word_obj, text, words_objects) ==
    Occurrences(word_obj.word, Split(text))

\* word_search, lines 127-130: how often word_obj is incremented for one text
Increments(word_obj, text, words_objects) ==
    Cardinality({word \in found_words(text, words_objects) : word = word_obj.word})

\* the matches added to tf_idf instead of found_in_texts
SearchTextIntoTfIdf(text, words_objects) ==
    [k \in 1..Len(words_objects) |->
        [words_objects[k] EXCEPT
            !.tf_idf = @ + Increments(words_objects[k], text, words_objects)]]

\* word_search, lines 124-130: the body of the loop over the corpus
SearchText(text, words_objects) ==
    [k \in 1..Len(words_objects) |->
        [words_objects[k] EXCEPT
            !.found_in_texts = @ + Increments(words_objects[k], text, words_objects)]]

\* ------------------------------------------------------------------ main.py
\* sorted(x, key=lambda word_obj: word_obj.tf_idf, reverse=True): stable
\* an insertion that puts a word before the words of equal score
RECURSIVE InsertBeforeEqual(_, _)
InsertBeforeEqual(word_obj, s) ==
    IF s = <<>> THEN <<word_obj>>
    ELSE IF Head(s).tf_idf > word_obj.tf_idf
         THEN <<Head(s)>> \o InsertBeforeEqual(word_obj, Tail(s))
         ELSE <<word_obj>> \o s

RECURSIVE Insert(_, _)
Insert(word_obj, s) ==
    IF s = <<>> THEN <<word_obj>>
    ELSE IF Head(s).tf_idf >= word_obj.tf_idf
         THEN <<Head(s)>> \o Insert(word_obj, Tail(s))
         ELSE <<word_obj>> \o s

RECURSIVE sorted(_)
sorted(words) ==
    IF words = <<>> THEN <<>>
    ELSE Insert(words[Len(words)], sorted(SubSeq(words, 1, Len(words) - 1)))

\* ---------------------------------------------------------- file_operations.py
get_all_txt_file_paths(main_folder) ==
    IF main_folder.txt
    THEN <<[exists |-> main_folder.exists,
            data |-> IF main_folder.exists THEN main_folder.files[1] ELSE <<>>]>>
    ELSE [k \in 1..Len(main_folder.files) |->
            [exists |-> TRUE, data |-> main_folder.files[k]]]

\* ------------------------------------------------------- corpus_processing.py
\* creating_corpus, lines 85-88: one tokens-only call per file
corpus_of(txt_files) ==
    [k \in 1..Len(txt_files) |-> text_cleaning_lemmas(<<txt_files[k]>>, FALSE)]

\* ------------------------------------------------------------------- inputs
Contents == SeqsUpTo(RawLemmas, MaxLen)

RECURSIVE TotalLen(_)
TotalLen(fs) == IF fs = <<>> THEN 0 ELSE Len(Head(fs)) + TotalLen(Tail(fs))

Folders == {fs \in SeqsUpTo(Contents, MaxFiles) : TotalLen(fs) <= MaxLen}

\* a path names a .txt file or a directory, and exists or not; os.walk of a
\* directory that does not exist yields nothing
Paths ==
    {[txt |-> TRUE, exists |-> TRUE, files |-> <<c>>] : c \in Contents}
    \cup {[txt |-> TRUE, exists |-> FALSE, files |-> <<>>]}
    \cup {[txt |-> FALSE, exists |-> TRUE, files |-> fs] : fs \in Folders}
    \cup {[txt |-> FALSE, exists |-> FALSE, files |-> <<>>]}

\* ------------------------------------------------------------ pipeline run
Init ==
    /\ pc = "get_paths"
    /\ corpus_path \in Paths
    /\ analysis_path \in Paths
    /\ corpus_files = <<>>
    /\ analysis_files = <<>>
    /\ lemmatized_text = <<>>
    /\ x = <<>>
    /\ corpus_texts = <<>>
    /\ total_number_of_txt_files = 0
    /\ i = 0
    /\ j = 0
    /\ sorted_words = <<>>
    /\ error = "none"

\* main.py:54-55
GetPaths ==
    /\ pc = "get_paths"
    /\ corpus_files' = get_all_txt_file_paths(corpus_path)
    /\ analysis_files' = get_all_txt_file_paths(analysis_path)
    /\ pc' = "clean_analysis"
    /\ UNCHANGED <<corpus_path, analysis_path, lemmatized_text, x, corpus_texts,
                   total_number_of_txt_files, i, j, sorted_words, error>>

\* main.py:58
CleanAnalysis ==
    /\ pc = "clean_analysis"
    /\ IF CanRead(analysis_files)
       THEN /\ lemmatized_text' = lemmatizing_text_cltk(main_text(analysis_files))
            /\ x' = text_cleaning_lemmas(analysis_files, TRUE)
            /\ pc' = "creating_corpus"
            /\ error' = error
       ELSE /\ pc' = "raised"
            /\ error' = "FileNotFoundError"
            /\ UNCHANGED <<lemmatized_text, x>>
    /\ UNCHANGED <<corpus_path, analysis_path, corpus_files, analysis_files,
                   corpus_texts, total_number_of_txt_files, i, j, sorted_words>>

\* main.py:61, creating_corpus
CreatingCorpus ==
    /\ pc = "creating_corpus"
    /\ LET txt_files == get_all_txt_file_paths(corpus_path)
       IN  IF CanRead(txt_files)
           THEN /\ corpus_texts' = corpus_of(txt_files)
                /\ total_number_of_txt_files' = Len(txt_files)
                /\ pc' = "word_search"
                /\ error' = error
           ELSE /\ pc' = "raised"
                /\ error' = "FileNotFoundError"
                /\ UNCHANGED <<corpus_texts, total_number_of_txt_files>>
    /\ UNCHANGED <<corpus_path, analysis_path, corpus_files, analysis_files,
                   lemmatized_text, x, i, j, sorted_words>>

\* main.py:64, word_search: one iteration of the loop over the corpus
WordSearchText ==
    /\ pc = "word_search"
    /\ i < Len(corpus_texts)
    /\ x' = SearchText(corpus_texts[i + 1], x)
    /\ i' = i + 1
    /\ UNCHANGED <<pc, corpus_path, analysis_path, corpus_files, analysis_files,
                   lemmatized_text, corpus_texts, total_number_of_txt_files, j,
                   sorted_words, error>>

\* word_search returns
WordSearchReturn ==
    /\ pc = "word_search"
    /\ i = Len(corpus_texts)
    /\ pc' = "calculate_idf"
    /\ UNCHANGED <<corpus_path, analysis_path, corpus_files, analysis_files,
                   lemmatized_text, x, corpus_texts, total_number_of_txt_files,
                   i, j, sorted_words, error>>

\* main.py:67, calculate_idf: one iteration of the loop over the word objects
CalculateIdfWord ==
    /\ pc = "calculate_idf"
    /\ j < Len(x)
    /\ IF ScoreRaises(total_number_of_txt_files, x[j + 1])
       THEN /\ pc' = "raised"
            /\ error' = "ValueError"
            /\ UNCHANGED <<x, j>>
       ELSE /\ x' = [x EXCEPT ![j + 1] = ScoreWord(total_number_of_txt_files, x[j + 1])]
            /\ j' = j + 1
            /\ UNCHANGED <<pc, error>>
    /\ UNCHANGED <<corpus_path, analysis_path, corpus_files, analysis_files,
                   lemmatized_text, corpus_texts, total_number_of_txt_files, i,
                   sorted_words>>

\* calculate_idf returns
CalculateIdfReturn ==
    /\ pc = "calculate_idf"
    /\ j = Len(x)
    /\ pc' = "sort"
    /\ UNCHANGED <<corpus_path, analysis_path, corpus_files, analysis_files,
                   lemmatized_text, x, corpus_texts, total_number_of_txt_files,
                   i, j, sorted_words, error>>

\* main.py:70
Sort ==
    /\ pc = "sort"
    /\ sorted_words' = sorted(x)
    /\ pc' = "report"
    /\ UNCHANGED <<corpus_path, analysis_path, corpus_files, analysis_files,
                   lemmatized_text, x, corpus_texts, total_number_of_txt_files,
                   i, j, error>>

\* main.py:73-83: printing, visualising and saving read the words only (the
\* plotting and export libraries are outside the repository)
Report ==
    /\ pc = "report"
    /\ pc' = "done"
    /\ UNCHANGED <<corpus_path, analysis_path, corpus_files, analysis_files,
                   lemmatized_text, x, corpus_texts, total_number_of_txt_files,
                   i, j, sorted_words, error>>

Next ==
    \/ GetPaths
    \/ CleanAnalysis
    \/ CreatingCorpus
    \/ WordSearchText
    \/ WordSearchReturn
    \/ CalculateIdfWord
    \/ CalculateIdfReturn
    \/ Sort
    \/ Report

Spec == Init /\ [][Next]_vars

\* ------------------------------------------- the Frequency Model on its own
FreqInit ==
    /\ pc = "analyse"
    /\ lemmatized_text \in {Join(lemmas) : lemmas \in SeqsUpTo(FreqLemmas, MaxLemmas)}
    /\ corpus_path = [txt |-> FALSE, exists |-> FALSE, files |-> <<>>]
    /\ analysis_path = [txt |-> FALSE, exists |-> FALSE, files |-> <<>>]
    /\ corpus_files = <<>>
    /\ analysis_files = <<>>
    /\ x = <<>>
    /\ corpus_texts = <<>>
    /\ total_number_of_txt_files = 0
    /\ i = 0
    /\ j = 0
    /\ sorted_words = <<>>
    /\ error = "none"

\* text_processing.py:187-188
Analyse ==
    /\ pc = "analyse"
    /\ x' = words_to_objects(statistical_analysing(lemmatized_text))
    /\ pc' = "analysed"
    /\ UNCHANGED <<corpus_path, analysis_path, corpus_files, analysis_files,
                   lemmatized_text, corpus_texts, total_number_of_txt_files,
                   i, j, sorted_words, error>>

FreqNext == Analyse

FreqSpec == FreqInit /\ [][FreqNext]_vars



\* ------------------------------------------------- the lemma adapter on its own
AdapterInit ==
    /\ pc = "lemmatize"
    /\ \E text_lemmas \in SeqsUpTo(AdapterLemmas, MaxTokens) :
          analysis_files = <<[exists |-> TRUE, data |-> text_lemmas]>>
    /\ corpus_path = [txt |-> FALSE, exists |-> FALSE, files |-> <<>>]
    /\ analysis_path = [txt |-> FALSE, exists |-> FALSE, files |-> <<>>]
    /\ corpus_files = <<>>
    /\ lemmatized_text = <<>>
    /\ x = <<>>
    /\ corpus_texts = <<>>
    /\ total_number_of_txt_files = 0
    /\ i = 0
    /\ j = 0
    /\ sorted_words = <<>>
    /\ error = "none"

\* text_processing.py:185
Lemmatize ==
    /\ pc = "lemmatize"
    /\ lemmatized_text' = lemmatizing_text_cltk(main_text(analysis_files))
    /\ pc' = "lemmatized"
    /\ UNCHANGED <<corpus_path, analysis_path, corpus_files, analysis_files, x,
                   corpus_texts, total_number_of_txt_files, i, j, sorted_words,
                   error>>

AdapterNext == Lemmatize

AdapterSpec == AdapterInit /\ [][AdapterNext]_vars

\* ------------------------------------------------------ the ranking on its own
\* scored collections of a run over two reference documents: distinct words,
\* each in 0, 1 or 2 of the documents
Injective(f) == \A a, b \in DOMAIN f : f[a] = f[b] => a = b

RankDocuments == 2

WordLists == {ws \in SeqsUpTo(RankWords, MaxTerms) : Injective(ws)}

RECURSIVE Total(_)
Total(raw) == IF raw = <<>> THEN 0 ELSE Head(raw) + Total(Tail(raw))

Scored(ws, found, raw) ==
    [k \in 1..Len(ws) |->
        ScoreWord(RankDocuments,
                  [Word(ws[k], Fraction(raw[k], Total(raw)), raw[k])
                      EXCEPT !.found_in_texts = found[k]])]

RankInit ==
    /\ pc = "sort"
    /\ \E ws \in WordLists :
          \E found \in [1..Len(ws) -> 0..RankDocuments] :
             \E raw \in [1..Len(ws) -> 1..2] :
                /\ x = Scored(ws, found, raw)
                /\ corpus_texts =
                      <<Join(SelectSeq(ws, LAMBDA w :
                                \E k \in 1..Len(ws) : ws[k] = w /\ found[k] >= 1)),
                        Join(SelectSeq(ws, LAMBDA w :
                                \E k \in 1..Len(ws) : ws[k] = w /\ found[k] >= 2))>>
    /\ corpus_path = [txt |-> FALSE, exists |-> TRUE, files |-> <<>>]
    /\ analysis_path = [txt |-> FALSE, exists |-> TRUE, files |-> <<>>]
    /\ corpus_files = <<>>
    /\ analysis_files = <<>>
    /\ lemmatized_text = <<>>
    /\ total_number_of_txt_files = RankDocuments
    /\ i = RankDocuments
    /\ j = Len(x)
    /\ sorted_words = <<>>
    /\ error = "none"

RankNext ==
    \/ Sort
    \/ Report

RankSpec == RankInit /\ [][RankNext]_vars

\* ------------------------------------------------------- the Scorer on its own
\* collections as word_search leaves them after two reference documents:
\* distinct words, each in 0, 1 or 2 of the documents, with small and large
\* raw counts
Searched(ws, found, raw) ==
    [k \in 1..Len(ws) |->
        [Word(ws[k], Fraction(raw[k], Total(raw)), raw[k])
            EXCEPT !.found_in_texts = found[k]]]

ScoreInit ==
    /\ pc = "calculate_idf"
    /\ \E ws \in WordLists :
          \E found \in [1..Len(ws) -> 0..RankDocuments] :
             \E raw \in [1..Len(ws) -> ScoreCounts] :
                /\ x = Searched(ws, found, raw)
                /\ corpus_texts =
                      <<Join(SelectSeq(ws, LAMBDA w :
                                \E k \in 1..Len(ws) : ws[k] = w /\ found[k] >= 1)),
                        Join(SelectSeq(ws, LAMBDA w :
                                \E k \in 1..Len(ws) : ws[k] = w /\ found[k] >= 2))>>
    /\ corpus_path = [txt |-> FALSE, exists |-> TRUE, files |-> <<>>]
    /\ analysis_path = [txt |-> FALSE, exists |-> TRUE, files |-> <<>>]
    /\ corpus_files = <<>>
    /\ analysis_files = <<>>
    /\ lemmatized_text = <<>>
    /\ total_number_of_txt_files = RankDocuments
    /\ i = RankDocuments
    /\ j = 0
    /\ sorted_words = <<>>
    /\ error = "none"

ScoreNext ==
    \/ CalculateIdfWord
    \/ CalculateIdfReturn
    \/ Sort
    \/ Report

ScoreSpec == ScoreInit /\ [][ScoreNext]_vars

\* ================================================================== claims
\* positions of main at which word_search has been entered
Searching == {"word_search", "calculate_idf", "sort", "report", "done"}

\* positions of main at which calculate_idf has been entered
Scoring == {"calculate_idf", "sort", "report", "done"}

\* the word occurs among the whitespace-separated tokens of the text
Contains(text, w) == \E m \in 1..Len(text) : text[m] = w /\ w # " " /\ w # ""

\* the number of the first n reference documents that contain the word
DocumentsContaining(w, n) ==
    Cardinality({d \in 1..n : Contains(corpus_texts[d], w)})

\* C1: once word_search has scanned i reference documents, each Term's
\* documentFrequency is the number of those documents whose tokens contain
\* the Term's text; after word_search returns that is the number over the
\* whole corpus, one per document however often the term occurs in it.
C1_DocumentFrequencyIsPresenceCount ==
    pc \in Searching =>
        /\ pc # "word_search" => i = Len(corpus_texts)
        /\ \A k \in 1..Len(x) :
              x[k].found_in_texts = DocumentsContaining(x[k].word, i)

\* word_search has returned; one term occurs twice inside one document and
\* is in two documents, another term is in none
C1_Witness ==
    /\ pc = "calculate_idf"
    /\ \E k \in 1..Len(x) :
          /\ x[k].found_in_texts = 2
          /\ \E d \in 1..Len(corpus_texts) :
                Occurrences(x[k].word, Split(corpus_texts[d])) >= 2
    /\ \E k \in 1..Len(x) : x[k].found_in_texts = 0

\* C2: in every state of a run every Term's documentFrequency is at most
\* totalReferenceDocumentCount, the number of files creating_corpus returned
\* with a corpus of as many texts.
C2_DocumentFrequencyAtMostCorpusSize ==
    /\ \A k \in 1..Len(x) : x[k].found_in_texts <= total_number_of_txt_files
    /\ pc \in Searching => total_number_of_txt_files = Len(corpus_texts)

\* the scan is under way and a term has been found in every document so far
C2_Witness ==
    /\ pc = "word_search"
    /\ i >= 1
    /\ i < Len(corpus_texts)
    /\ \E k \in 1..Len(x) : x[k].found_in_texts = i

\* C3: the Scorer gives every Term whose documentFrequency is 0 the score
\* 10000 exactly and leaves its idf at 0, whatever its rawCount and whatever
\* the number of reference documents.
C3_ZeroDocumentFrequencyGetsSentinel ==
    pc \in Scoring =>
        \A k \in 1..j :
            x[k].found_in_texts = 0 =>
                x[k].tf_idf = Sentinel * Scale /\ x[k].idf = 0

\* a scored term with rawCount above 1 that no document of a non-empty
\* corpus contains
C3_Witness ==
    /\ pc \in Scoring
    /\ total_number_of_txt_files >= 1
    /\ \E k \in 1..j : x[k].found_in_texts = 0 /\ x[k].raw_count >= 2

\* C4 as stated: for 0 < d <= N, of two scored Terms with the same
\* documentFrequency d the one with the larger rawCount has the strictly
\* larger tfIdf.
C4_StrictlyIncreasingUpToN ==
    pc \in Scoring =>
        \A k, l \in 1..j :
            (/\ x[k].found_in_texts = x[l].found_in_texts
             /\ 0 < x[k].found_in_texts
             /\ x[k].found_in_texts <= total_number_of_txt_files
             /\ x[k].raw_count < x[l].raw_count)
            => x[k].tf_idf < x[l].tf_idf

\* C4 amended: for 0 < d < N, of two scored Terms with the same
\* documentFrequency d the one with the larger rawCount has the strictly
\* larger tfIdf; for d = N the tfIdf is 0 whatever the rawCount.
C4_StrictlyIncreasingBelowN ==
    pc \in Scoring =>
        /\ \A k, l \in 1..j :
              (/\ x[k].found_in_texts = x[l].found_in_texts
               /\ 0 < x[k].found_in_texts
               /\ x[k].found_in_texts < total_number_of_txt_files
               /\ x[k].raw_count < x[l].raw_count)
              => x[k].tf_idf < x[l].tf_idf
        /\ \A k \in 1..j :
              (0 < x[k].found_in_texts
               /\ x[k].found_in_texts = total_number_of_txt_files)
              => x[k].tf_idf = 0

\* two scored terms in the same number of documents, fewer than all, with
\* different raw counts
C4_Witness ==
    /\ pc \in Scoring
    /\ \E k, l \in 1..j :
          /\ x[k].found_in_texts = x[l].found_in_texts
          /\ 0 < x[k].found_in_texts
          /\ x[k].found_in_texts < total_number_of_txt_files
          /\ x[k].raw_count < x[l].raw_count


\* the lemma sequence the Frequency Model was given
Lemmas == Split(lemmatized_text)

\* occurrences of the lower-cased lemma w in the lemma sequence
LemmaCount(w) == Cardinality({m \in 1..Len(Lemmas) : LowerWord(Lemmas[m]) = w})

\* position of the first occurrence of the lower-cased lemma w
FirstOccurrence(w) ==
    CHOOSE m \in 1..Len(Lemmas) :
        /\ LowerWord(Lemmas[m]) = w
        /\ \A n \in 1..(m - 1) : LowerWord(Lemmas[n]) # w

\* C5: the Frequency Model emits exactly one Term per distinct lower-cased
\* lemma of the sequence and no other, in order of first occurrence; each
\* Term's text is non-empty and its rawCount is the number of occurrences
\* of the lemma, so at least 1.
C5_OneTermPerDistinctLemma ==
    pc = "analysed" =>
        /\ {x[k].word : k \in 1..Len(x)} = {LowerWord(Lemmas[m]) : m \in 1..Len(Lemmas)}
        /\ \A k, l \in 1..Len(x) : x[k].word = x[l].word => k = l
        /\ \A k, l \in 1..Len(x) :
              k < l => FirstOccurrence(x[k].word) < FirstOccurrence(x[l].word)
        /\ \A k \in 1..Len(x) :
              /\ x[k].word # ""
              /\ x[k].raw_count = LemmaCount(x[k].word)
              /\ x[k].raw_count >= 1

\* a sequence with the same lemma in both cases, a lemma counted twice, and
\* a first-occurrence order that is not the alphabetical one
C5_Witness ==
    /\ pc = "analysed"
    /\ \E m, n \in 1..Len(Lemmas) : Lemmas[m] = "A" /\ Lemmas[n] = "a"
    /\ Len(x) = 2
    /\ x[1].word = "b"
    /\ x[2].raw_count >= 2

RECURSIVE SumOf(_, _)
SumOf(s, field) ==
    IF s = <<>> THEN 0
    ELSE (IF field = "raw_count" THEN Head(s).raw_count ELSE Head(s).frequency)
         + SumOf(Tail(s), field)

\* C6: for a non-empty lemma sequence of length n each Term's
\* relativeFrequency is rawCount / n and lies in (0, 1]; the rawCounts sum
\* to n and the relative frequencies sum to 1, up to one unit of the
\* number representation per Term.
C6_RelativeFrequenciesSumToOne ==
    (pc = "analysed" /\ Len(Lemmas) > 0) =>
        /\ \A k \in 1..Len(x) :
              /\ x[k].frequency = (x[k].raw_count * Scale) \div Len(Lemmas)
              /\ 0 < x[k].frequency
              /\ x[k].frequency <= Scale
        /\ SumOf(x, "raw_count") = Len(Lemmas)
        /\ SumOf(x, "frequency") <= Scale
        /\ SumOf(x, "frequency") > Scale - Len(x)

\* three lemmas, two of them equal: frequencies 2/3 and 1/3
C6_Witness ==
    /\ pc = "analysed"
    /\ Len(Lemmas) = 3
    /\ Len(x) = 2
    /\ \E k \in 1..2 : x[k].raw_count = 2

\* C7: when the analysis unit yields no token the run is rejected with an
\* error; main never goes on to creating_corpus, word_search, calculate_idf
\* and the ranking with an empty collection of Terms.
C7_EmptyAnalysisRejected ==
    (pc \notin {"get_paths", "clean_analysis"} /\ Lemmas = <<>>) =>
        pc = "raised" /\ error # "none"

\* C8: when the reference corpus has no document the run is rejected with
\* an error before calculate_idf is called.
C8_EmptyCorpusRejected ==
    ~(pc \in Scoring /\ total_number_of_txt_files = 0)

\* C9: a corpus or analysis path that does not exist, a .txt file or a
\* directory, aborts the run; main never goes on to word_search and the
\* ranking with such a path.
C9_MissingPathAborts ==
    pc \in Searching => corpus_path.exists /\ analysis_path.exists

\* position of the word object in the ranked sequence
Rank(word_obj) == CHOOSE m \in 1..Len(sorted_words) : sorted_words[m].word = word_obj.word

\* s holds the word objects of x, each once, by tf_idf non-increasing, those
\* of equal tf_idf in their order in x
IsRanking(s) ==
    /\ Len(s) = Len(x)
    /\ \A k \in 1..Len(x) : \E m \in 1..Len(s) : s[m] = x[k]
    /\ \A m, n \in 1..Len(s) : m < n => s[m].tf_idf >= s[n].tf_idf
    /\ \A k, l \in 1..Len(x) :
          (k < l /\ x[k].tf_idf = x[l].tf_idf) =>
              \E m, n \in 1..Len(s) : m < n /\ s[m] = x[k] /\ s[n] = x[l]

\* C10: the ranked sequence is a permutation of the Term collection by tfIdf
\* non-increasing, Terms of equal tfIdf in their order in the collection;
\* it is the only such sequence, so ranking the collection again gives the
\* same sequence.
C10_RankingIsStableDescending ==
    pc \in {"report", "done"} =>
        /\ IsRanking(sorted_words)
        /\ \A p \in [1..Len(x) -> 1..Len(x)] :
              IsRanking([m \in 1..Len(x) |-> x[p[m]]]) =>
                  [m \in 1..Len(x) |-> x[p[m]]] = sorted_words

\* three terms ranked, the first and the last of the collection with equal
\* score below the score of the middle one
C10_Witness ==
    /\ pc = "report"
    /\ Len(x) = 3
    /\ x[1].tf_idf = x[3].tf_idf
    /\ x[2].tf_idf > x[1].tf_idf
    /\ sorted_words = <<x[2], x[1], x[3]>>


\* occurrences of the lower-cased lemma w in one file
FileCount(w, file) == Cardinality({m \in 1..Len(file) : LowerWord(file[m]) = w})

RECURSIVE CountOverFiles(_, _)
CountOverFiles(w, files) ==
    IF files = <<>> THEN 0
    ELSE FileCount(w, Head(files)) + CountOverFiles(w, Tail(files))

\* the lower-cased lemmas of a set of files
LemmasOfFiles(files) ==
    UNION {{LowerWord(files[f][m]) : m \in 1..Len(files[f])} : f \in 1..Len(files)}

\* C12: in statistics mode the analysis files are one combined document:
\* one Term per lemma distinct across all files, its rawCount the sum of the
\* lemma's occurrences over the files, its relativeFrequency the rawCount
\* over the token count of all files together; the reference corpus has one
\* entry per reference file, in file order, holding that file's lemmas only.
C12_AnalysisCombinedCorpusPerFile ==
    /\ pc \in ({"creating_corpus"} \cup Searching) =>
          /\ {x[k].word : k \in 1..Len(x)} = LemmasOfFiles(analysis_path.files)
          /\ \A k, l \in 1..Len(x) : x[k].word = x[l].word => k = l
          /\ \A k \in 1..Len(x) :
                /\ x[k].raw_count = CountOverFiles(x[k].word, analysis_path.files)
                /\ x[k].frequency =
                      (x[k].raw_count * Scale) \div TotalLen(analysis_path.files)
    /\ pc \in Searching =>
          /\ Len(corpus_texts) = Len(corpus_path.files)
          /\ \A d \in 1..Len(corpus_texts) :
                Split(corpus_texts[d]) =
                    [m \in 1..Len(corpus_path.files[d]) |->
                        LowerWord(corpus_path.files[d][m])]

\* two analysis files that share a lemma, which is counted twice, and a
\* corpus of two different files
C12_Witness ==
    /\ pc \in Searching
    /\ Len(analysis_path.files) = 2
    /\ \E k \in 1..Len(x) :
          /\ x[k].raw_count = 2
          /\ FileCount(x[k].word, analysis_path.files[1]) = 1
          /\ FileCount(x[k].word, analysis_path.files[2]) = 1
    /\ Len(x) = 2
    /\ Len(corpus_texts) = 2
    /\ corpus_texts[1] # corpus_texts[2]


\* the attributes of a Term that the Frequency Model sets
Created(word_obj) == <<word_obj.word, word_obj.frequency, word_obj.raw_count>>

\* the phases of a run in every state: no score before the scan is over, no
\* ranking before every Term is scored
C13_Order ==
    /\ pc \in {"get_paths", "clean_analysis", "creating_corpus", "word_search"} =>
          /\ j = 0
          /\ sorted_words = <<>>
          /\ \A k \in 1..Len(x) : x[k].idf = 0 /\ x[k].tf_idf = 0
    /\ pc \in {"get_paths", "clean_analysis", "creating_corpus"} =>
          /\ i = 0
          /\ \A k \in 1..Len(x) : x[k].found_in_texts = 0
    /\ pc \in Scoring => i = Len(corpus_texts)
    /\ pc = "calculate_idf" =>
          /\ sorted_words = <<>>
          /\ \A k \in (j + 1)..Len(x) : x[k].idf = 0 /\ x[k].tf_idf = 0
    /\ pc \in {"sort", "report", "done"} => j = Len(x)

\* the phases of a run in every step
C13_Step ==
    /\ pc \in Searching =>
          /\ Len(x') = Len(x)
          /\ \A k \in 1..Len(x) : Created(x'[k]) = Created(x[k])
    /\ pc = "word_search" =>
          \A k \in 1..Len(x) :
              /\ x'[k].found_in_texts >= x[k].found_in_texts
              /\ x'[k].idf = 0
              /\ x'[k].tf_idf = 0
    /\ pc = "calculate_idf" =>
          /\ j' \in {j, j + 1}
          /\ \A k \in 1..Len(x) :
                x'[k] # x[k] => (k = j + 1 /\ j' = j + 1)
    /\ pc \in {"sort", "report", "done"} => x' = x
    /\ sorted_words' # sorted_words => (pc = "sort" /\ j = Len(x))

\* C13: the phases of a run are strictly ordered: the Terms exist before
\* Corpus Search starts, the scan of every reference document ends before
\* the Scorer writes, ranking comes after every Term is scored; during the
\* scan documentFrequency never decreases and idf and tfIdf stay 0; each
\* Term is written by one Scorer step only, and no Term changes after
\* scoring.
C13_PhasesOrdered == [](C13_Order) /\ [][C13_Step]_vars

\* a finished run over two reference documents with two Terms, one of them
\* with a score that is neither 0 nor the sentinel
C13_Witness ==
    /\ pc = "done"
    /\ Len(x) = 2
    /\ Len(corpus_texts) = 2
    /\ \E k \in 1..2 : x[k].idf > 0 /\ x[k].tf_idf > 0
    /\ sorted_words # x

\* C14: word_search changes documentFrequency only and leaves the other
\* attributes, the collection's membership and order, and the reference
\* corpus as they are; calculate_idf changes idf and tfIdf only.
C14_Frames ==
    [][/\ pc = "word_search" =>
             /\ corpus_texts' = corpus_texts
             /\ Len(x') = Len(x)
             /\ \A k \in 1..Len(x) :
                   x'[k] = [x[k] EXCEPT !.found_in_texts = x'[k].found_in_texts]
       /\ pc = "calculate_idf" =>
             /\ Len(x') = Len(x)
             /\ \A k \in 1..Len(x) :
                   x'[k] = [x[k] EXCEPT !.idf = x'[k].idf, !.tf_idf = x'[k].tf_idf]
      ]_vars

\* the scan has raised the documentFrequency of a Term and the Scorer has
\* given it an idf and a tfIdf
C14_Witness ==
    /\ pc \in Scoring
    /\ \E k \in 1..j :
          /\ x[k].found_in_texts >= 1
          /\ x[k].idf > 0
          /\ x[k].tf_idf > 0
    /\ \E k \in 1..j : x[k].found_in_texts = 0 /\ x[k].tf_idf = Sentinel * Scale


\* the lemmas the lemmatizer returned, lower-cased
Lowered ==
    [m \in 1..Len(analysis_files[1].data) |-> LowerWord(analysis_files[1].data[m])]

IsSentinel(lemma) == lemma \in {"punc", "col"}

NotSentinel(lemma) == ~IsSentinel(lemma)

\* the lemmas of the adapter's output
Output == Split(lemmatized_text)

\* C15: the adapter outputs the lower-cased lemmas in the order of their
\* tokens, duplicates kept, without exactly those equal to 'punc' or 'col'
\* and with 'δ' replaced by 'δέ'; the output has as many lemmas as there
\* are tokens less the sentinel lemmas, and none is 'punc', 'col' or 'δ'.
C15_AdapterKeepsOrderDropsSentinels ==
    pc = "lemmatized" =>
        /\ Len(Output) = Len(SelectSeq(Lowered, NotSentinel))
        /\ Len(Output) =
              Len(Lowered) - Cardinality({m \in 1..Len(Lowered) : IsSentinel(Lowered[m])})
        /\ \A k \in 1..Len(Output) :
              /\ Output[k] = IF SelectSeq(Lowered, NotSentinel)[k] = "δ"
                             THEN "δέ"
                             ELSE SelectSeq(Lowered, NotSentinel)[k]
              /\ Output[k] \notin {"punc", "col", "δ"}

\* a sentinel in upper case between two equal lemmas, the second of which
\* is kept
C15_Witness ==
    /\ pc = "lemmatized"
    /\ Len(analysis_files[1].data) = 3
    /\ analysis_files[1].data[1] = "Δ"
    /\ analysis_files[1].data[2] = "PUNC"
    /\ analysis_files[1].data[3] = "Δ"
    /\ Output = <<"δέ", "δέ">>


\* C16 as stated: after scoring every Term with documentFrequency > 0 has
\* tfIdf <= 10000, and in the ranked sequence every Term with
\* documentFrequency = 0 precedes every Term with documentFrequency > 0.
C16_SentinelIsMaximum ==
    pc \in {"report", "done"} =>
        /\ \A k \in 1..Len(x) :
              x[k].found_in_texts > 0 => x[k].tf_idf <= Sentinel * Scale
        /\ \A k, l \in 1..Len(x) :
              (x[k].found_in_texts = 0 /\ x[l].found_in_texts > 0)
              => Rank(x[k]) < Rank(x[l])

\* ln(N / documentFrequency) * rawCount of a Term
Product(word_obj) ==
    word_obj.raw_count * LnFixed(total_number_of_txt_files, word_obj.found_in_texts)

\* C16 amended: a Term with documentFrequency > 0 has tfIdf below 10000, and
\* every Term with documentFrequency = 0 precedes it in the ranked sequence,
\* when ln(N / documentFrequency) * rawCount is below 10000; when that
\* product is above 10000 its tfIdf is above the sentinel and it precedes
\* every Term with documentFrequency = 0.
C16_SentinelAboveSmallProducts ==
    pc \in {"report", "done"} =>
        \A k, l \in 1..Len(x) :
            (x[k].found_in_texts = 0 /\ x[l].found_in_texts > 0) =>
                /\ Product(x[l]) < Sentinel * Scale =>
                      (x[l].tf_idf < Sentinel * Scale /\ Rank(x[k]) < Rank(x[l]))
                /\ Product(x[l]) > Sentinel * Scale =>
                      (x[l].tf_idf > Sentinel * Scale /\ Rank(x[l]) < Rank(x[k]))

\* ranked: a Term in one of two documents with a large raw count, then a
\* Term in no document, then a Term in one document with raw count 1
C16_Witness ==
    /\ pc = "report"
    /\ Len(sorted_words) = 3
    /\ sorted_words[1].found_in_texts = 1
    /\ sorted_words[1].raw_count = 20000
    /\ sorted_words[2].found_in_texts = 0
    /\ sorted_words[3].found_in_texts = 1
    /\ sorted_words[3].raw_count = 1


\* the file is also a file of the reference corpus
InCorpus(file) == \E d \in 1..Len(corpus_path.files) : corpus_path.files[d] = file

\* the texts of the Terms of the run
TermTexts == {x[k].word : k \in 1..Len(x)}

\* a single analysis document that is also reference document d yields the
\* same lemmas in statistics mode and in tokens-only mode
SameLemmasInBothModes ==
    pc \in Searching =>
        \A d \in 1..Len(corpus_texts) :
            (Len(analysis_path.files) = 1 /\ analysis_path.files[1] = corpus_path.files[d])
            => TermTexts = {corpus_texts[d][m] : m \in {n \in 1..Len(corpus_texts[d]) :
                                                      IsWord(corpus_texts[d][n])}}

\* every Term is in a reference document and the Scorer has not given it
\* the sentinel
NoTermUnseen ==
    \A k \in 1..Len(x) :
        /\ x[k].found_in_texts >= 1
        /\ k <= j => (x[k].idf = LnFixed(total_number_of_txt_files, x[k].found_in_texts)
                      /\ x[k].tf_idf = x[k].idf * x[k].raw_count)

\* C17 as stated: both modes yield the same lemmas for a document, and when
\* an analysis document is also a file of the reference corpus every Term
\* of the run ends Corpus Search with documentFrequency >= 1 and is not
\* given the sentinel.
C17_SomeAnalysisDocumentInCorpus ==
    /\ SameLemmasInBothModes
    /\ (pc \in Scoring
        /\ \E f \in 1..Len(analysis_path.files) : InCorpus(analysis_path.files[f]))
       => NoTermUnseen

\* C17 amended: both modes yield the same lemmas for a document, and when
\* every analysis document is also a file of the reference corpus every
\* Term of the run ends Corpus Search with documentFrequency >= 1 and is not
\* given the sentinel.
C17_EveryAnalysisDocumentInCorpus ==
    /\ SameLemmasInBothModes
    /\ (pc \in Scoring
        /\ \A f \in 1..Len(analysis_path.files) : InCorpus(analysis_path.files[f]))
       => NoTermUnseen

\* a scored run over two analysis documents with different lemmas, one in
\* upper case, both of them files of the corpus
C17_Witness ==
    /\ pc \in {"sort", "report", "done"}
    /\ Len(analysis_path.files) = 2
    /\ \A f \in 1..2 : InCorpus(analysis_path.files[f])
    /\ \E f \in 1..2 : \E m \in 1..Len(analysis_path.files[f]) :
          analysis_path.files[f][m] = "B"
    /\ Len(x) = 2
    /\ \E k \in 1..2 : x[k].tf_idf > 0

=============================================================================
